---------------------------- MODULE Spec2Model ----------------------------
(***************************************************************************)
(* cellardoor3 backend: a 1-wire access gate.  The main thread watches the *)
(* w1 bus (udev) and checks presented button ids against access_list; a    *)
(* background thread (mos_refresh) fetches the registry, diffs it into     *)
(* access_list in place and persists the list as flat 7-byte records.      *)
(*                                                                         *)
(* Texts are sequences of one-character strings, identifiers are 7-tuples  *)
(* of bytes, the persistence file is a sequence of bytes.                  *)
(***************************************************************************)
EXTENDS Integers, Sequences, FiniteSets, TLC

(***************************************************************************)
(* Results of fallible operations: Ok(v), Err(kind), or a panic (Rust      *)
(* unwinding out of the calling thread).                                   *)
(***************************************************************************)
Ok(v) == [tag |-> "Ok", val |-> v]
Err(k) == [tag |-> "Err", val |-> k]
Panic(k) == [tag |-> "Panic", val |-> k]

(***************************************************************************)
(* type OneWireId = [u8; 7]                                                *)
(***************************************************************************)
OneWireIdLen == 7

\* number of two-character hex groups parse_1w_id reads after the '-'
SerialGroups == 6

HexChars == <<"0", "1", "2", "3", "4", "5", "6", "7", "8", "9",
              "a", "b", "c", "d", "e", "f">>
UpperHexChars == <<"A", "B", "C", "D", "E", "F">>

\* a to_digit that knows the lower-case digits only
ToDigitLowerOnly(c) ==
    IF \E i \in 1..Len(HexChars) : HexChars[i] = c
    THEN (CHOOSE i \in 1..Len(HexChars) : HexChars[i] = c) - 1
    ELSE -1

\* char::to_digit(16): the digit value, or -1 when c is no hex digit
ToDigit(c) ==
    IF \E i \in 1..Len(HexChars) : HexChars[i] = c
    THEN (CHOOSE i \in 1..Len(HexChars) : HexChars[i] = c) - 1
    ELSE IF \E i \in 1..Len(UpperHexChars) : UpperHexChars[i] = c
    THEN (CHOOSE i \in 1..Len(UpperHexChars) : UpperHexChars[i] = c) + 9
    ELSE -1

RECURSIVE AccumulateHex(_, _)
\* the digit loop of u8::from_str_radix: -1 on an invalid digit or overflow
AccumulateHex(digits, acc) ==
    IF digits = <<>> THEN acc
    ELSE IF ToDigit(Head(digits)) < 0 THEN -1
    ELSE IF acc * 16 + ToDigit(Head(digits)) > 255 THEN -1
    ELSE AccumulateHex(Tail(digits), acc * 16 + ToDigit(Head(digits)))

\* u8::from_str_radix(s, 16): empty input, a lone sign, a non-hex character
\* and a value above 255 are errors; one leading '+' is accepted.
FromStrRadix16(s) ==
    IF s = <<>> THEN Err("ParseInt")
    ELSE IF Len(s) = 1 /\ s[1] \in {"+", "-"} THEN Err("ParseInt")
    ELSE LET digits == IF s[1] = "+" THEN Tail(s) ELSE s
             v == AccumulateHex(digits, 0)
         IN IF v < 0 THEN Err("ParseInt") ELSE Ok(v)

\* position of the first occurrence of c in s, 0 when there is none
FirstIndex(s, c) ==
    IF \E i \in 1..Len(s) : s[i] = c
    THEN CHOOSE i \in 1..Len(s) : s[i] = c /\ \A j \in 1..(i - 1) : s[j] # c
    ELSE 0

\* str::split_once(c): <<>> for None, else <<before, after>>
SplitOnce(s, c) ==
    LET i == FirstIndex(s, c)
    IN IF i = 0 THEN <<>>
       ELSE <<SubSeq(s, 1, i - 1), SubSeq(s, i + 1, Len(s))>>

RECURSIVE ParseGroups(_, _, _)
\* the loop "for idx in 0..6" of parse_1w_id: the slice id[2idx..2idx+2]
\* panics when it reaches past the end of id, before the group is parsed
ParseGroups(id, idx, result) ==
    IF idx = SerialGroups THEN Ok(result)
    ELSE IF idx * 2 + 2 > Len(id) THEN Panic("slice index out of range")
    ELSE LET g == FromStrRadix16(SubSeq(id, idx * 2 + 1, idx * 2 + 2))
         IN IF g.tag = "Err" THEN g
            ELSE ParseGroups(id, idx + 1, Append(result, g.val))

\* fn parse_1w_id(id: &str) -> anyhow::Result<[u8; 7]>
parse_1w_id(text) ==
    LET parts == SplitOnce(text, "-")
    IN IF parts = <<>> THEN Err("Wrong id format")
       ELSE LET devtype == FromStrRadix16(parts[1])
            IN IF devtype.tag = "Err" THEN devtype
               ELSE ParseGroups(parts[2], 0, <<devtype.val>>)


(***************************************************************************)
(* Registry response parsing (the body of "for line in ....lines()").       *)
(***************************************************************************)
IsWhitespace(c) == c \in {" ", "\t", "\r"}

RECURSIVE TrimStart(_)
TrimStart(s) ==
    IF s # <<>> /\ IsWhitespace(Head(s)) THEN TrimStart(Tail(s)) ELSE s

RECURSIVE TrimEnd(_)
TrimEnd(s) ==
    IF s # <<>> /\ IsWhitespace(s[Len(s)])
    THEN TrimEnd(SubSeq(s, 1, Len(s) - 1)) ELSE s

\* str::trim
Trim(s) == TrimEnd(TrimStart(s))

\* "line.is_empty() || line.starts_with('#')" on the trimmed line
SkipLine(line) == line = <<>> \/ line[1] = "#"

\* a line handler that unwraps split_once(','): a line without comma panics
ParseLineUnwrapComma(rawLine, set) ==
    LET line == Trim(rawLine)
    IN IF SkipLine(line) THEN Ok(set)
       ELSE LET parts == SplitOnce(line, ",")
            IN IF parts = <<>> THEN Panic("called unwrap on a None value")
               ELSE LET r == parse_1w_id(parts[1])
                    IN IF r.tag = "Ok" THEN Ok(set \cup {r.val})
                       ELSE IF r.tag = "Err" THEN Ok(set)
                       ELSE r

\* what one line of the response does to the HashSet ids: Ok(ids') or a panic
ParseLine(rawLine, set) ==
    LET line == Trim(rawLine)
    IN IF SkipLine(line) THEN Ok(set)
       ELSE LET parts == SplitOnce(line, ",")
            IN IF parts = <<>> THEN Ok(set)
               ELSE LET r == parse_1w_id(parts[1])
                    IN IF r.tag = "Ok" THEN Ok(set \cup {r.val})
                       ELSE IF r.tag = "Err" THEN Ok(set)
                       ELSE r

RECURSIVE ParseLines(_, _)
\* the whole loop over the lines, in order; a panic ends it
ParseLines(lines, set) ==
    IF lines = <<>> THEN Ok(set)
    ELSE LET r == ParseLine(Head(lines), set)
         IN IF r.tag = "Panic" THEN r ELSE ParseLines(Tail(lines), r.val)

\* the HashSet ids built from a response body (a sequence of lines)
ParseBody(lines) == ParseLines(lines, {})

(***************************************************************************)
(* Persistence: flat file of 7-byte records.                               *)
(***************************************************************************)
RECURSIVE ReadRecords(_, _)
\* the read_exact loop: a full record is inserted; fewer than 7 bytes left
\* (none, or a fragment) is UnexpectedEof, which ends the loop normally
ReadRecords(bytes, set) ==
    IF Len(bytes) >= OneWireIdLen
    THEN ReadRecords(SubSeq(bytes, OneWireIdLen + 1, Len(bytes)),
                     set \cup {SubSeq(bytes, 1, OneWireIdLen)})
    ELSE set

\* fn deserialize_1w_devices: f is the file at the path, ioError whether a
\* read fails with an error other than UnexpectedEof
deserialize_1w_devices(f, ioError) ==
    IF ~f.exists THEN Err("open")
    ELSE IF ioError THEN Err("read")
    ELSE Ok(ReadRecords(f.bytes, {}))

\* a File::create that opened the file without truncating it
FileOpenedUntruncated(f) == [exists |-> TRUE, bytes |-> f.bytes]

\* File::create: the file exists and is empty afterwards
FileCreate(f) == [exists |-> TRUE, bytes |-> <<>>]

\* file.write_all(&*id) that wrote the first n bytes of id
FileWrite(f, id, n) == [f EXCEPT !.bytes = f.bytes \o SubSeq(id, 1, n)]

(***************************************************************************)
(* Inputs: identifier texts, registry lines and bodies, bus notifications, *)
(* files found at startup.                                                 *)
(***************************************************************************)
IdTextA == <<"3", "3", "-", "0", "0", "0", "0", "0", "3", "9", "2", "c", "6", "e", "a">>
IdTextB == <<"0", "1", "-", "0", "0", "0", "0", "F", "F", "0", "0", "a", "a", "1", "0">>
IdTextC == <<"3", "3", "-", "0", "0", "0", "0", "0", "3", "9", "a", "1", "1", "b", "2">>
IdTextD == <<"3", "3", "-", "0", "0", "0", "0", "0", "3", "9", "2", "c", "6", "e", "b">>
\* a button no registry body lists
IdTextE == <<"3", "3", "-", "0", "0", "0", "0", "0", "0", "0", "0", "0", "0", "0", "1">>
\* malformed identifier texts
BadHexText == <<"z", "z", "-", "0", "0", "0", "0", "0", "3", "9", "2", "c", "6", "e", "a">>
NoDashText == <<"3", "3", "0", "0", "0", "0", "0", "3", "9", "2", "c", "6", "e", "a">>
ShortSerialText == <<"3", "3", "-", "0", "0", "0", "0">>

IdA == parse_1w_id(IdTextA).val
IdB == parse_1w_id(IdTextB).val
IdC == parse_1w_id(IdTextC).val
IdD == parse_1w_id(IdTextD).val
IdE == parse_1w_id(IdTextE).val

\* a registry line "<id>,<name>"
RemoteEntry(idText) == idText \o <<",", "k", "e", "y">>

BlankLine == <<" ", " ">>
CommentLine == <<"#">> \o RemoteEntry(IdTextA)
NoCommaLine == <<"b", "a", "d", "-", "l", "i", "n", "e">>
PaddedEntry(idText) == <<" ">> \o RemoteEntry(idText) \o <<" ", "\r">>

\* the response bodies the registry may answer with, each a sequence of lines
RegistryBodies ==
    { <<>>,
      <<RemoteEntry(IdTextA)>>,
      <<RemoteEntry(IdTextA), RemoteEntry(IdTextB), RemoteEntry(IdTextC)>>,
      <<PaddedEntry(IdTextB), RemoteEntry(IdTextC), RemoteEntry(IdTextD)>>,
      <<CommentLine, BlankLine, RemoteEntry(IdTextB), NoCommaLine>>,
      <<CommentLine, RemoteEntry(BadHexText), NoCommaLine>>,
      <<RemoteEntry(BadHexText), RemoteEntry(IdTextA), RemoteEntry(NoDashText)>>,
      <<RemoteEntry(IdTextA), RemoteEntry(ShortSerialText), RemoteEntry(IdTextB)>> }

\* the longest generated response body, in lines
MaxLines == 3

\* lines of the generated bodies: three entries (one of them padded with
\* whitespace) and the four kinds of line the loop passes over
LinePool ==
    { RemoteEntry(IdTextA), RemoteEntry(IdTextB), PaddedEntry(IdTextC),
      <<>>, BlankLine, CommentLine, NoCommaLine }

RECURSIVE BodiesOfLen(_)
\* every body of k lines of the pool, in every order
BodiesOfLen(k) ==
    IF k = 0 THEN {<<>>}
    ELSE {<<l>> \o b : l \in LinePool, b \in BodiesOfLen(k - 1)}

\* every body of at most MaxLines lines of the pool
ParseBodies == UNION {BodiesOfLen(k) : k \in 0..MaxLines}

\* ParseBody of every body, tabulated (evaluated once)
ResponseIds == [b \in RegistryBodies |-> ParseBody(b)]
GeneratedIds == [b \in ParseBodies |-> ParseBody(b)]

\* the HashSet ids of a body, from the tables
BodyIds(b) == IF b \in RegistryBodies THEN ResponseIds[b] ELSE GeneratedIds[b]

\* a sysname whose OsStr is not valid UTF-8
NonUtf8 == <<"?">>

\* sysnames of w1 devices that are valid UTF-8
SysNames == {IdTextA, IdTextE, BadHexText, ShortSerialText}

\* udev events on the w1 subsystem: event type and sysname
UdevEvents ==
    [type : {"Add"}, sysname : SysNames \cup {NonUtf8}]
    \cup [type : {"Remove"}, sysname : {IdTextA}]

\* parse_1w_id of every sysname, tabulated (evaluated once)
SysnameIds == [n \in SysNames |-> parse_1w_id(n)]

NoFile == [exists |-> FALSE, bytes |-> <<>>]
FileOf(bytes) == [exists |-> TRUE, bytes |-> bytes]

\* what may be at persistence.path when the process starts
StartFiles ==
    { NoFile,
      FileOf(<<>>),
      FileOf(IdA),
      FileOf(IdC \o IdA \o IdB),
      FileOf(IdA \o SubSeq(IdB, 1, 3)) }

\* how many bytes of a record a failing write_all may have written
PartialWrites == {0, 3}

\* the cycle counter saturates here (cycle = MaxCycle means "that or later")
MaxCycle == 2

(***************************************************************************)
(* State.                                                                  *)
(***************************************************************************)
VARIABLES
    file,         \* the file at persistence.path: [exists, bytes]
    token_ok,     \* config.thing.token is a valid header value
    access_list,  \* the shared DashSet<OneWireId>
    mainPc,       \* main thread: "load", "setup", "poll", "exited"
    exit,         \* "none" while the process runs, else why main() ended
    decision,     \* what the main thread logged for the last "Add" event
    syncPc,       \* refresh thread: "unspawned", "call", "returned", "fetch",
                  \* "retain", "insert", "save", "save_write", "sleep",
                  \* "exited", or "panicked: token", "panicked: body",
                  \* "panicked: parse" once the thread has unwound
    body,         \* lines of the last response with a success status
    fetchResult,  \* "none", "ok", "error" (send failed), "status" (non-2xx)
    ids,          \* the local HashSet ids
    toVisit,      \* members of access_list that retain has not visited yet
    old_len,      \* the local old_len
    logNew,       \* "{} new" of the debug message (ids.len() after retain)
    logRemoved,   \* "{} removed" of the debug message
    updated,      \* the local updated
    toWrite,      \* members serialize_1w_devices has not written yet
    saveResult,   \* "none", "ok", "err": outcome of serialize_1w_devices
    saveInvoked,  \* serialize_1w_devices was called in the current cycle
    cycle,        \* number of refresh cycles started, saturating at MaxCycle
    setBefore,    \* access_list when the current cycle started
    prev,         \* the previous cycle: [first, ok, body, saved]
    lastDiffed,   \* access_list as loaded, then as of the last finished diff
    idArg,        \* the argument of a call of parse_1w_id taken on its own
    parsed        \* what that call returned, NotParsed before it

vars == <<file, token_ok, access_list, mainPc, exit, decision,
          syncPc, body, fetchResult, ids, toVisit, old_len,
          logNew, logRemoved, updated, toWrite, saveResult, saveInvoked,
          cycle, setBefore, prev, lastDiffed, idArg, parsed>>

codecVars == <<idArg, parsed>>
mainVars == <<mainPc, exit, decision>>
cycleLocals == <<ids, toVisit, old_len, logNew, logRemoved, updated>>
saveVars == <<file, toWrite, saveResult, saveInvoked>>
historyVars == <<cycle, setBefore, prev, lastDiffed>>
syncVars == <<syncPc, body, fetchResult, cycleLocals, saveVars, historyVars>>

NoDecision == [verdict |-> "none", id |-> <<>>]
NoPrev == [first |-> FALSE, ok |-> FALSE, body |-> <<>>, saved |-> FALSE]
NotParsed == [tag |-> "NotParsed", val |-> <<>>]

Running == exit = "none"

\* the process before main() has run, whatever the file and the token are
ProgramInit ==
    /\ file \in StartFiles
    /\ token_ok \in BOOLEAN
    /\ access_list = {}
    /\ mainPc = "load"
    /\ exit = "none"
    /\ decision = NoDecision
    /\ syncPc = "unspawned"
    /\ body = <<>>
    /\ fetchResult = "none"
    /\ ids = {}
    /\ toVisit = {}
    /\ old_len = 0
    /\ logNew = 0
    /\ logRemoved = 0
    /\ updated = FALSE
    /\ toWrite = {}
    /\ saveResult = "none"
    /\ saveInvoked = FALSE
    /\ cycle = 0
    /\ setBefore = {}
    /\ prev = NoPrev
    /\ lastDiffed = {}

Init ==
    /\ ProgramInit
    /\ idArg = <<>>
    /\ parsed = NotParsed

\* main() returns an error or the main thread panics: the process ends and
\* with it both threads and everything in memory; the file stays as it is
ProcessExit(cause) ==
    /\ exit' = cause
    /\ mainPc' = "exited"
    /\ syncPc' = "exited"
    /\ access_list' = {}
    /\ decision' = NoDecision
    /\ body' = <<>>
    /\ fetchResult' = "none"
    /\ ids' = {} /\ toVisit' = {} /\ old_len' = 0
    /\ logNew' = 0 /\ logRemoved' = 0 /\ updated' = FALSE
    /\ toWrite' = {} /\ saveResult' = "none" /\ saveInvoked' = FALSE
    /\ cycle' = 0 /\ setBefore' = {} /\ prev' = NoPrev /\ lastDiffed' = {}
    /\ UNCHANGED <<file, token_ok, codecVars>>

(***************************************************************************)
(* main thread                                                             *)
(***************************************************************************)
\* unwrap_or_else of the load: an error is logged and the list starts empty
LoadedSet(r) == IF r.tag = "Ok" THEN r.val ELSE {}

\* a main that returns the error of the load ("?") instead of starting empty
StartUpStrict ==
    /\ Running /\ mainPc = "load"
    /\ \E ioError \in BOOLEAN :
         LET r == deserialize_1w_devices(file, ioError)
         IN IF r.tag = "Err"
            THEN ProcessExit("load error")
            ELSE /\ access_list' = r.val
                 /\ lastDiffed' = r.val
                 /\ syncPc' = "call"
                 /\ mainPc' = "setup"
                 /\ UNCHANGED <<file, token_ok, codecVars, exit, decision, body,
                                fetchResult, cycleLocals, toWrite, saveResult,
                                saveInvoked, cycle, setBefore, prev>>

\* main, from the load of the persisted list to the spawn of the refresh thread
StartUp ==
    /\ Running /\ mainPc = "load"
    /\ \E ioError \in BOOLEAN :
         LET r == deserialize_1w_devices(file, ioError)
         IN /\ access_list' = LoadedSet(r)
            /\ lastDiffed' = LoadedSet(r)
    /\ syncPc' = "call"
    /\ mainPc' = "setup"
    /\ UNCHANGED <<file, token_ok, codecVars, exit, decision, body, fetchResult,
                   cycleLocals, toWrite, saveResult, saveInvoked, cycle,
                   setBefore, prev>>

\* the udev monitor, the socket and the poll registration all succeed
MainSetupOk ==
    /\ Running /\ mainPc = "setup"
    /\ mainPc' = "poll"
    /\ UNCHANGED <<file, token_ok, codecVars, access_list, exit, decision, syncVars>>

\* one of them fails: "?" returns the error from main
MainSetupErr ==
    /\ Running /\ mainPc = "setup"
    /\ ProcessExit("setup error")

\* poll.poll(&mut events, None)? fails: main returns the error
MainPollErr ==
    /\ Running /\ mainPc = "poll"
    /\ ProcessExit("poll error")

\* a closure that grants every id it can decode, without the lookup
HandleEventNoLookup(sysname, list) ==
    IF sysname = NonUtf8 THEN Panic("to_str().unwrap()")
    ELSE LET r == SysnameIds[sysname]
         IN IF r.tag = "Panic" THEN r
            ELSE IF r.tag = "Err"
            THEN Ok([verdict |-> "parse error", id |-> <<>>])
            ELSE Ok([verdict |-> "valid", id |-> r.val])

\* the closure of for_each on one udev event that passed the "Add" filter:
\* the decision logged, or a panic
HandleEvent(sysname, list) ==
    IF sysname = NonUtf8 THEN Panic("to_str().unwrap()")
    ELSE LET r == SysnameIds[sysname]
         IN IF r.tag = "Panic" THEN r
            ELSE IF r.tag = "Err"
            THEN Ok([verdict |-> "parse error", id |-> <<>>])
            ELSE IF r.val \in list
            THEN Ok([verdict |-> "valid", id |-> r.val])
            ELSE Ok([verdict |-> "invalid", id |-> r.val])

\* an event handler that enrols every id it has just denied
MainEventLearns(ev) ==
    /\ Running /\ mainPc = "poll"
    /\ IF ev.type # "Add"
       THEN UNCHANGED vars
       ELSE LET r == HandleEvent(ev.sysname, access_list)
            IN IF r.tag = "Panic"
               THEN ProcessExit("panic")
               ELSE /\ decision' = r.val
                    /\ access_list' = IF r.val.verdict = "invalid"
                                      THEN access_list \cup {r.val.id}
                                      ELSE access_list
                    /\ UNCHANGED <<file, token_ok, codecVars, mainPc, exit,
                                   syncVars>>

\* poll returns and one udev event is read from the socket: events other
\* than "Add" are filtered out, an "Add" event is handled; a panic on the
\* main thread ends the process.  Then the loop polls again.
MainEvent(ev) ==
    /\ Running /\ mainPc = "poll"
    /\ IF ev.type # "Add"
       THEN UNCHANGED vars
       ELSE LET r == HandleEvent(ev.sysname, access_list)
            IN IF r.tag = "Panic"
               THEN ProcessExit("panic")
               ELSE /\ decision' = r.val
                    /\ UNCHANGED <<file, token_ok, codecVars, access_list, mainPc, exit,
                                   syncVars>>

MainNext ==
    \/ StartUp
    \/ MainSetupOk
    \/ MainSetupErr
    \/ MainPollErr
    \/ \E ev \in UdevEvents : MainEvent(ev)

(***************************************************************************)
(* refresh thread: the loop around mos_refresh, and mos_refresh            *)
(***************************************************************************)
Min(a, b) == IF a < b THEN a ELSE b

\* mos_refresh is entered and config.token.parse().unwrap() panics: the
\* thread unwinds out of the closure; nothing catches it
SyncTokenPanic ==
    /\ Running /\ syncPc = "call" /\ ~token_ok
    /\ syncPc' = "panicked: token"
    /\ UNCHANGED <<file, token_ok, codecVars, access_list, mainVars, body, fetchResult,
                   cycleLocals, toWrite, saveResult, saveInvoked, historyVars>>

\* Client::builder().build()? fails: mos_refresh returns Err to the wrapper
SyncBuildErr ==
    /\ Running /\ syncPc = "call" /\ token_ok
    /\ syncPc' = "returned"
    /\ UNCHANGED <<file, token_ok, codecVars, access_list, mainVars, body, fetchResult,
                   cycleLocals, toWrite, saveResult, saveInvoked, historyVars>>

\* the wrapper logs "MOS refresh thread error" and its loop calls
\* mos_refresh again
SyncRestart ==
    /\ Running /\ syncPc = "returned"
    /\ syncPc' = "call"
    /\ UNCHANGED <<file, token_ok, codecVars, access_list, mainVars, body, fetchResult,
                   cycleLocals, toWrite, saveResult, saveInvoked, historyVars>>

\* the client is built: the inner loop starts
SyncBuildOk ==
    /\ Running /\ syncPc = "call" /\ token_ok
    /\ syncPc' = "fetch"
    /\ UNCHANGED <<file, token_ok, codecVars, access_list, mainVars, body, fetchResult,
                   cycleLocals, toWrite, saveResult, saveInvoked, historyVars>>

\* a failed fetch that cleared the list
ListClearedOnFailedFetch(list) == {}

\* what a cycle that got no usable response does to the list
ListAfterFailedFetch(list) == list

\* client.get(url).send() is Err (kind = "error"), or the status is not a
\* success (kind = "status"): nothing but the sleep follows
SyncFetchFail(kind) ==
    /\ Running /\ syncPc = "fetch"
    /\ fetchResult' = kind
    /\ cycle' = Min(cycle + 1, MaxCycle)
    /\ setBefore' = access_list
    /\ access_list' = ListAfterFailedFetch(access_list)
    /\ syncPc' = "sleep"
    /\ UNCHANGED <<file, token_ok, codecVars, mainVars, body, cycleLocals, toWrite,
                   saveResult, saveInvoked, prev, lastDiffed>>

\* success status, but resp.text().unwrap() panics (the body cannot be read)
SyncTextPanic ==
    /\ Running /\ syncPc = "fetch"
    /\ fetchResult' = "ok"
    /\ cycle' = Min(cycle + 1, MaxCycle)
    /\ setBefore' = access_list
    /\ syncPc' = "panicked: body"
    /\ UNCHANGED <<file, token_ok, codecVars, access_list, mainVars, body, cycleLocals,
                   toWrite, saveResult, saveInvoked, prev, lastDiffed>>

\* success status with body b: the lines are parsed into ids, then len and
\* old_len are taken and retain starts; a panic in parse_1w_id ends the thread
SyncFetchBody(b) ==
    /\ Running /\ syncPc = "fetch"
    /\ fetchResult' = "ok"
    /\ body' = b
    /\ cycle' = Min(cycle + 1, MaxCycle)
    /\ setBefore' = access_list
    /\ LET r == BodyIds(b)
       IN IF r.tag = "Panic"
          THEN /\ syncPc' = "panicked: parse"
               /\ UNCHANGED <<ids, old_len, toVisit>>
          ELSE /\ syncPc' = "retain"
               /\ ids' = r.val
               /\ old_len' = Cardinality(access_list)
               /\ toVisit' = access_list
    /\ UNCHANGED <<file, token_ok, codecVars, access_list, mainVars, logNew, logRemoved,
                   updated, toWrite, saveResult, saveInvoked, prev,
                   lastDiffed>>

\* a retain closure that keeps every member
RetainKeepsAll(button, set) == TRUE

\* a retain closure that keeps no member (clear, then rebuild)
RetainKeepsNone(button, set) == FALSE

\* the closure of retain, |button| ids.remove(button): keep iff it was in ids
RetainKeeps(button, set) == button \in set

\* retain visits one member (DashSet::retain locks shard after shard, so a
\* reader may see the list between any two visits; the order is the hash
\* order, which is arbitrary)
SyncRetain(button) ==
    /\ Running /\ syncPc = "retain" /\ button \in toVisit
    /\ access_list' = IF RetainKeeps(button, ids) THEN access_list
                      ELSE access_list \ {button}
    /\ ids' = ids \ {button}
    /\ toVisit' = toVisit \ {button}
    /\ UNCHANGED <<file, token_ok, codecVars, mainVars, syncPc, body, fetchResult,
                   old_len, logNew, logRemoved, updated, toWrite, saveResult,
                   saveInvoked, historyVars>>

\* an updated that looks at the new identifiers only
UpdatedOnNewOnly(remaining, oldLen, list) == remaining # {}

\* let updated = !ids.is_empty() || old_len - access_list.len() > 0
Updated(remaining, oldLen, list) ==
    remaining # {} \/ oldLen - Cardinality(list) > 0

\* retain is over: the debug message and updated
SyncRefreshed ==
    /\ Running /\ syncPc = "retain" /\ toVisit = {}
    /\ logNew' = Cardinality(ids)
    /\ logRemoved' = old_len - Cardinality(access_list)
    /\ updated' = Updated(ids, old_len, access_list)
    /\ syncPc' = "insert"
    /\ UNCHANGED <<file, token_ok, codecVars, access_list, mainVars, body, fetchResult,
                   ids, toVisit, old_len, toWrite, saveResult, saveInvoked,
                   historyVars>>

\* for id in ids { access_list.insert(id) }, one insert
SyncInsert(id) ==
    /\ Running /\ syncPc = "insert" /\ id \in ids
    /\ access_list' = access_list \cup {id}
    /\ ids' = ids \ {id}
    /\ UNCHANGED <<file, token_ok, codecVars, mainVars, syncPc, body, fetchResult,
                   toVisit, old_len, logNew, logRemoved, updated, toWrite,
                   saveResult, saveInvoked, historyVars>>

\* a cycle that persists whether or not the list changed
SaveAlways(upd) == TRUE

\* if updated { serialize_1w_devices(...) }
SaveWanted(upd) == upd

\* the inserts are over: persist if updated, else sleep
SyncDiffDone ==
    /\ Running /\ syncPc = "insert" /\ ids = {}
    /\ lastDiffed' = access_list
    /\ syncPc' = IF SaveWanted(updated) THEN "save" ELSE "sleep"
    /\ UNCHANGED <<file, token_ok, codecVars, access_list, mainVars, body, fetchResult,
                   cycleLocals, toWrite, saveResult, saveInvoked, cycle,
                   setBefore, prev>>

\* serialize_1w_devices: File::create succeeds and truncates the file
SaveCreate ==
    /\ Running /\ syncPc = "save"
    /\ saveInvoked' = TRUE
    /\ file' = FileCreate(file)
    /\ toWrite' = access_list
    /\ syncPc' = "save_write"
    /\ UNCHANGED <<token_ok, codecVars, access_list, mainVars, body, fetchResult,
                   cycleLocals, saveResult, historyVars>>

\* File::create fails: the error is logged, the cycle goes on to the sleep
SaveCreateErr ==
    /\ Running /\ syncPc = "save"
    /\ saveInvoked' = TRUE
    /\ saveResult' = "err"
    /\ syncPc' = "sleep"
    /\ UNCHANGED <<file, token_ok, codecVars, access_list, mainVars, body, fetchResult,
                   cycleLocals, toWrite, historyVars>>

\* one record is written, in the iteration order of the DashSet
SaveWrite(id) ==
    /\ Running /\ syncPc = "save_write" /\ id \in toWrite
    /\ file' = FileWrite(file, id, OneWireIdLen)
    /\ toWrite' = toWrite \ {id}
    /\ UNCHANGED <<token_ok, codecVars, access_list, mainVars, syncPc, body, fetchResult,
                   cycleLocals, saveResult, saveInvoked, historyVars>>

\* write_all fails after n bytes of a record: logged, on to the sleep
SaveWriteErr(id, n) ==
    /\ Running /\ syncPc = "save_write" /\ id \in toWrite
    /\ file' = FileWrite(file, id, n)
    /\ toWrite' = {}
    /\ saveResult' = "err"
    /\ syncPc' = "sleep"
    /\ UNCHANGED <<token_ok, codecVars, access_list, mainVars, body, fetchResult,
                   cycleLocals, saveInvoked, historyVars>>

\* every record is written; file.flush() and Ok(())
SaveFlush ==
    /\ Running /\ syncPc = "save_write" /\ toWrite = {}
    /\ saveResult' = "ok"
    /\ syncPc' = "sleep"
    /\ UNCHANGED <<file, token_ok, codecVars, access_list, mainVars, body, fetchResult,
                   cycleLocals, toWrite, saveInvoked, historyVars>>

\* thread::sleep returns: the next iteration of the inner loop
SyncSleep ==
    /\ Running /\ syncPc = "sleep"
    /\ syncPc' = "fetch"
    /\ prev' = [first |-> cycle = 1,
                ok |-> fetchResult = "ok",
                body |-> IF fetchResult = "ok" THEN body ELSE <<>>,
                saved |-> saveInvoked]
    /\ body' = <<>>
    /\ fetchResult' = "none"
    /\ setBefore' = {}
    /\ old_len' = 0 /\ logNew' = 0 /\ logRemoved' = 0 /\ updated' = FALSE
    /\ saveResult' = "none" /\ saveInvoked' = FALSE
    /\ UNCHANGED <<file, token_ok, codecVars, access_list, mainVars, ids, toVisit,
                   toWrite, cycle, lastDiffed>>

SyncNext ==
    \/ SyncTokenPanic
    \/ SyncBuildErr
    \/ SyncRestart
    \/ SyncBuildOk
    \/ \E kind \in {"error", "status"} : SyncFetchFail(kind)
    \/ SyncTextPanic
    \/ \E b \in RegistryBodies : SyncFetchBody(b)
    \/ \E button \in toVisit : SyncRetain(button)
    \/ SyncRefreshed
    \/ \E id \in ids : SyncInsert(id)
    \/ SyncDiffDone
    \/ SaveCreate
    \/ SaveCreateErr
    \/ \E id \in toWrite : SaveWrite(id)
    \/ \E id \in toWrite, n \in PartialWrites : SaveWriteErr(id, n)
    \/ SaveFlush
    \/ SyncSleep

Next == MainNext \/ SyncNext

Spec == Init /\ [][Next]_vars

\* both threads are scheduled by the operating system: a thread that can
\* take a step eventually takes one
FairSpec == Spec /\ WF_vars(SyncNext) /\ WF_vars(MainNext)

(***************************************************************************)
(* parse_1w_id taken on its own: one call on a text drawn from a bounded   *)
(* set of well-formed and malformed ids.                                   *)
(***************************************************************************)
\* the longest serial of the generated texts, in two-character groups
MaxInputGroups == 6

\* the part before the '-': two hex bytes and one that is no hex
InputFamilies == {<<"3", "3">>, <<"F", "e">>, <<"z", "z">>}

\* two-character groups of the serial: two hex bytes and one that is no hex
InputGroups == {<<"0", "0">>, <<"E", "a">>, <<"z", "0">>}

RECURSIVE GroupSerials(_)
\* every serial made of k groups
GroupSerials(k) ==
    IF k = 0 THEN {<<>>}
    ELSE {g \o s : g \in InputGroups, s \in GroupSerials(k - 1)}

\* serials of 0..MaxInputGroups groups, also with one dangling digit
InputSerials ==
    LET whole == UNION {GroupSerials(k) : k \in 0..MaxInputGroups}
    IN whole \cup {s \o <<"3">> : s \in whole}

\* the texts parse_1w_id is called on: with and without the '-', and the
\* ids used elsewhere in the model
DecodeInputs ==
    {f \o <<"-">> \o s : f \in InputFamilies, s \in InputSerials}
    \cup {f \o s : f \in InputFamilies, s \in GroupSerials(MaxInputGroups)}
    \cup {IdTextA, IdTextB, IdTextC, IdTextD, IdTextE,
          BadHexText, NoDashText, ShortSerialText}

InitCodec ==
    /\ ProgramInit
    /\ file = NoFile
    /\ token_ok
    /\ idArg \in DecodeInputs
    /\ parsed = NotParsed

\* the call parse_1w_id(idArg)
Decode ==
    /\ parsed = NotParsed
    /\ parsed' = parse_1w_id(idArg)
    /\ UNCHANGED <<file, token_ok, idArg, access_list, mainVars, syncVars>>

NextCodec == Decode

SpecCodec == InitCodec /\ [][NextCodec]_vars

(***************************************************************************)
(* The parsing of a response taken on its own: the process starts and the  *)
(* refresh thread receives one body drawn from the generated ones.         *)
(***************************************************************************)
NextParse ==
    \/ StartUp
    \/ SyncBuildOk
    \/ \E b \in ParseBodies : SyncFetchBody(b)

SpecParse == Init /\ [][NextParse]_vars

(***************************************************************************)
(* Properties.                                                             *)
(***************************************************************************)
\* the refresh thread has unwound from a panic
SyncPanicked ==
    syncPc \in {"panicked: token", "panicked: body", "panicked: parse"}

\* the desired set of the current cycle, as parsed from its response
Desired == ResponseIds[body].val

\* the diff of the current cycle is complete
DiffFinished ==
    fetchResult = "ok" /\ syncPc \in {"save", "save_write", "sleep"}

\* between the start of the retain pass and the last insert
InDiff == syncPc \in {"retain", "insert"}

\* C1: a completed diff leaves access_list equal to the desired set, reports
\* |old \ desired| removed and |desired \ old| new, and updated is true
\* exactly when one of the two counts is positive.
C1_DiffResult ==
    DiffFinished =>
        /\ access_list = Desired
        /\ logRemoved = Cardinality(setBefore \ Desired)
        /\ logNew = Cardinality(Desired \ setBefore)
        /\ updated = (logNew > 0 \/ logRemoved > 0)

\* old {A,B,C}, desired {B,C,D}: the list is {B,C,D}, one removed, one new,
\* updated
C1_Witness ==
    /\ DiffFinished
    /\ setBefore = {IdA, IdB, IdC}
    /\ access_list = {IdB, IdC, IdD}
    /\ logRemoved = 1 /\ logNew = 1 /\ updated

\* C2 as claimed: with a non-empty list before the diff and a non-empty
\* desired set, the list is non-empty in every state of the diff.
C2_NeverEmptyClaimed ==
    (InDiff /\ setBefore # {} /\ Desired # {}) => access_list # {}

\* C2 amended: when the list before the diff and the desired set share an
\* identifier, the list is non-empty in every state of the diff.
C2_NeverEmptyIfOverlap ==
    (InDiff /\ setBefore \cap Desired # {}) => access_list # {}

\* retain has dropped A from {A,B,C} for desired {B,C,D}; D is not inserted
\* yet
C2_Witness ==
    /\ syncPc = "insert"
    /\ setBefore = {IdA, IdB, IdC}
    /\ Desired = {IdB, IdC, IdD}
    /\ access_list = {IdB, IdC}

\* C3: at the end of every cycle, serialize_1w_devices has been called in it
\* exactly when the cycle changed access_list.
C3_SaveIffChanged ==
    syncPc = "sleep" => (saveInvoked <=> access_list # setBefore)

\* old {A}, desired {A}: list unchanged, updated false, no save
C3_Witness ==
    /\ syncPc = "sleep" /\ fetchResult = "ok"
    /\ setBefore = {IdA} /\ Desired = {IdA} /\ access_list = {IdA}
    /\ ~updated /\ ~saveInvoked

\* the current cycle and the one before it both got a response, with the
\* same body, and the current one is over
SameListTwice ==
    syncPc = "sleep" /\ fetchResult = "ok" /\ prev.ok /\ prev.body = body

\* saves called in the previous and the current cycle together
WritesOfTwoCycles ==
    (IF prev.saved THEN 1 ELSE 0) + (IF saveInvoked THEN 1 ELSE 0)

\* C4 as claimed: the first two cycles after startup, receiving the same
\* list, call save exactly once between them (stated here for a list with
\* at least one identifier).
C4_ExactlyOneWriteClaimed ==
    (SameListTwice /\ prev.first /\ Desired # {}) => WritesOfTwoCycles = 1

\* C4 amended: two consecutive successful cycles that receive the same list
\* call save at most once, and never in the second cycle.
C4_NoWriteInSecond ==
    SameListTwice => (~saveInvoked /\ WritesOfTwoCycles <= 1)

\* the first cycle after startup saved, the second got the same list and
\* did not
C4_Witness ==
    SameListTwice /\ prev.first /\ prev.saved /\ ~saveInvoked

\* a step of the refresh thread that ends a fetch without a usable response
FailedFetchStep ==
    syncPc = "fetch" /\ fetchResult' \in {"error", "status"}

IdTextOf(rawLine) ==
    LET line == Trim(rawLine)
    IN IF SkipLine(line) \/ SplitOnce(line, ",") = <<>> THEN <<>>
       ELSE SplitOnce(line, ",")[1]

\* the identifiers of the lines of a body that decode successfully
DecodableIds(lines) ==
    { parse_1w_id(IdTextOf(lines[i])).val :
        i \in { j \in 1..Len(lines) : parse_1w_id(IdTextOf(lines[j])).tag = "Ok" } }

\* the response has just been parsed
JustParsed == syncPc = "retain" /\ toVisit = setBefore

\* C6 as claimed: no registry line ends the cycle by failing to decode, and
\* the desired set is the set of identifiers of the lines that decode.
C6_BadLineOnlyDropped ==
    /\ syncPc # "panicked: parse"
    /\ JustParsed => ids = DecodableIds(body)

\* the refresh thread has unwound from a panic inside a cycle
PanickedInCycle == syncPc \in {"panicked: body", "panicked: parse"}

\* C7 as claimed: a refresh thread that has terminated by a fault inside a
\* cycle is restarted, that is, it has a next step to take.
C7_PanickedThreadRestarts ==
    (Running /\ PanickedInCycle) => ENABLED SyncNext

\* C8 as claimed: once the loops run, no error ends the process.
C8_NoErrorEndsProcess ==
    exit \notin {"poll error", "panic"}

\* C9 as claimed: a file whose length is not a multiple of 7 makes the load
\* fail, so that the list starts empty.
C9_FragmentFailsLoad ==
    [][(mainPc = "load" /\ file.exists
            /\ Len(file.bytes) % OneWireIdLen # 0)
          => access_list' = {}]_vars

\* C10: after serialize_1w_devices has returned Ok, deserialize_1w_devices
\* of the file returns the list that was saved.
C10_SaveLoadRoundTrip ==
    (syncPc = "sleep" /\ saveResult = "ok")
        => deserialize_1w_devices(file, FALSE) = Ok(access_list)

\* {B,C,D} was saved in the order D, B, C by a cycle that started from
\* {A,B,C}
C10_Witness ==
    /\ syncPc = "sleep" /\ saveResult = "ok"
    /\ setBefore = {IdA, IdB, IdC}
    /\ access_list = {IdB, IdC, IdD}
    /\ file.bytes = IdD \o IdB \o IdC

\* value of each hexadecimal digit character
HexDigitValue ==
    ("0" :> 0) @@ ("1" :> 1) @@ ("2" :> 2) @@ ("3" :> 3) @@ ("4" :> 4) @@
    ("5" :> 5) @@ ("6" :> 6) @@ ("7" :> 7) @@ ("8" :> 8) @@ ("9" :> 9) @@
    ("a" :> 10) @@ ("b" :> 11) @@ ("c" :> 12) @@ ("d" :> 13) @@
    ("e" :> 14) @@ ("f" :> 15) @@
    ("A" :> 10) @@ ("B" :> 11) @@ ("C" :> 12) @@ ("D" :> 13) @@
    ("E" :> 14) @@ ("F" :> 15)

\* s is made of hexadecimal digits only
IsHexText(s) == \A i \in 1..Len(s) : s[i] \in DOMAIN HexDigitValue

HasSeparator(t) == \E i \in 1..Len(t) : t[i] = "-"

\* position of the first '-' of a text that has one
SeparatorAt(t) ==
    CHOOSE i \in 1..Len(t) : t[i] = "-" /\ \A j \in 1..(i - 1) : t[j] # "-"

FamilyOf(t) == SubSeq(t, 1, SeparatorAt(t) - 1)
SerialOf(t) == SubSeq(t, SeparatorAt(t) + 1, Len(t))

\* t has a '-' but a family or serial group that is no hex, or a serial of
\* fewer than 12 characters
BadHexExpected(t) ==
    /\ HasSeparator(t)
    /\ \/ FamilyOf(t) = <<>>
       \/ ~IsHexText(FamilyOf(t))
       \/ Len(SerialOf(t)) < 2 * SerialGroups
       \/ ~IsHexText(SubSeq(SerialOf(t), 1, 2 * SerialGroups))

\* C11: parse_1w_id is total and checked: every call returns an id or an
\* error and never panics; a text without '-' fails with "Wrong id format",
\* and a text with a non-hex group or a serial shorter than 12 characters
\* fails with the hex parse error.
C11_DecodeTotalAndChecked ==
    parsed # NotParsed =>
        /\ parsed.tag \in {"Ok", "Err"}
        /\ ~HasSeparator(idArg) => parsed = Err("Wrong id format")
        /\ BadHexExpected(idArg) => parsed = Err("ParseInt")

\* t is two hex digits, '-', and exactly 12 hex digits
WellFormedText(t) ==
    /\ Len(t) = 3 + 2 * SerialGroups
    /\ t[3] = "-"
    /\ IsHexText(SubSeq(t, 1, 2))
    /\ IsHexText(SubSeq(t, 4, Len(t)))

\* value of the two-digit group of t that starts at position i
HexByteValue(t, i) == 16 * HexDigitValue[t[i]] + HexDigitValue[t[i + 1]]

\* the family byte followed by the six serial bytes, in order
ExpectedId(t) ==
    <<HexByteValue(t, 1)>> \o [k \in 1..SerialGroups |-> HexByteValue(t, 2 + 2 * k)]

\* C12: for a text "<familyHex>-<serialHex12>" parse_1w_id returns the 7-byte
\* id made of the family byte and the six two-digit groups of the serial in
\* order; "33-00000392c6ea" gives [0x33, 0, 0, 3, 0x92, 0xc6, 0xea].
C12_DecodeWellFormed ==
    /\ (parsed # NotParsed /\ WellFormedText(idArg)) =>
           /\ parsed = Ok(ExpectedId(idArg))
           /\ Len(parsed.val) = OneWireIdLen
    /\ (parsed # NotParsed /\ idArg = IdTextA) =>
           parsed = Ok(<<51, 0, 0, 3, 146, 198, 234>>)

C12_Witness ==
    /\ idArg = IdTextA
    /\ parsed = Ok(<<51, 0, 0, 3, 146, 198, 234>>)

\* the well-formed "<id>,<name>" lines of the pool with the id each decodes to
WellFormedEntries ==
    { <<RemoteEntry(IdTextA), IdA>>, <<RemoteEntry(IdTextB), IdB>>,
      <<PaddedEntry(IdTextC), IdC>> }

\* the lines of the pool that are blank, a comment, or without comma
SkippedLines == {<<>>, BlankLine, CommentLine, NoCommaLine}

\* ids of the well-formed lines that occur in a body
ExpectedDesired(lines) ==
    { e[2] : e \in { w \in WellFormedEntries :
                       \E i \in 1..Len(lines) : lines[i] = w[1] } }

NotSkipped(l) == l \notin SkippedLines

\* the body with its skipped lines taken out
WithoutSkipped(lines) == SelectSeq(lines, NotSkipped)

\* C13: blank lines, comment lines and lines without comma are passed over
\* without effect on any other line: the desired set is the set of ids of
\* the well-formed lines, the same as for the body without the skipped lines.
C13_SkippedLinesNoEffect ==
    /\ syncPc # "panicked: parse"
    /\ JustParsed =>
           /\ ids = ExpectedDesired(body)
           /\ ids = BodyIds(WithoutSkipped(body)).val

C13_Witness ==
    /\ JustParsed
    /\ body = <<CommentLine, RemoteEntry(IdTextA), NoCommaLine>>
    /\ ids = {IdA}

\* an "Add" event of the device with this sysname
AddEvent(n) == [type |-> "Add", sysname |-> n]

\* C14: a contains check of the main thread at any point of a diff in
\* progress is never blocked and never ends the process, and it answers
\* "valid" only for an id of the set before the diff or of the desired set
\* (access_list is a set: an id is in it at most once in every state).
C14_ContainsDuringDiff ==
    /\ []((InDiff /\ mainPc = "poll") => ENABLED MainEvent(AddEvent(IdTextA)))
    /\ [][\A n \in {IdTextA, IdTextE} :
             (InDiff /\ MainEvent(AddEvent(n))) => Running']_vars
    /\ [][(InDiff /\ decision' # decision /\ decision'.verdict = "valid")
             => /\ decision'.id \in access_list
                /\ decision'.id \in setBefore \cup Desired]_vars
    /\ [](InDiff => access_list \subseteq setBefore \cup Desired)

\* A was granted and then dropped by the retain pass of a diff in progress
C14_Witness ==
    /\ syncPc = "retain"
    /\ mainPc = "poll"
    /\ decision = [verdict |-> "valid", id |-> IdA]
    /\ setBefore = {IdA, IdB, IdC}
    /\ Desired = {IdB, IdC, IdD}
    /\ IdA \notin access_list
    /\ toVisit # {}

\* C15: a missing or unreadable persistence file does not stop the start:
\* the list starts empty (or as read), the refresh thread is spawned and main
\* goes on to its event loop setup; the first cycle that then gets a
\* non-empty desired set fills the list and saves it to the file.
C15_LoadFailsNonFatally ==
    /\ [][mainPc = "load"
             => /\ Running'
                /\ mainPc' = "setup"
                /\ syncPc' = "call"
                /\ access_list' \in {{}, ReadRecords(file.bytes, {})}
                /\ ~file.exists => access_list' = {}]_vars
    /\ []((syncPc = "sleep" /\ fetchResult = "ok"
              /\ setBefore = {} /\ Desired # {})
            => /\ access_list = Desired
               /\ saveInvoked
               /\ saveResult = "ok"
                    => (file.exists /\ ReadRecords(file.bytes, {}) = Desired))

\* no file at start; both threads run and the first cycle has filled the list
\* with {A,B,C} and is about to create the file
C15_Witness ==
    /\ ~file.exists
    /\ mainPc = "poll"
    /\ syncPc = "save"
    /\ cycle = 1
    /\ setBefore = {}
    /\ access_list = {IdA, IdB, IdC}

\* C16: handling a bus event (grant, deny or decode failure) changes neither
\* access_list nor the file; while the process runs, access_list is changed
\* only by the retain pass and the inserts of the refresh thread (after the
\* load at start), and the file is changed only by serialize_1w_devices.
C16_SingleMutator ==
    /\ [][\A ev \in UdevEvents :
             (MainEvent(ev) /\ Running')
                 => (access_list' = access_list /\ file' = file)]_vars
    /\ [][(decision' # decision /\ Running')
             => (access_list' = access_list /\ file' = file)]_vars
    /\ [][(access_list' # access_list /\ Running' /\ mainPc # "load")
             => syncPc \in {"retain", "insert"}]_vars
    /\ [][file' # file => syncPc \in {"save", "save_write"}]_vars

\* the unknown button E was denied; list and file are as loaded
C16_Witness ==
    /\ mainPc = "poll"
    /\ decision = [verdict |-> "invalid", id |-> IdE]
    /\ access_list = {IdA, IdB, IdC}
    /\ file = FileOf(IdC \o IdA \o IdB)
    /\ cycle = 0

\* what a load of the file would return differs from the list in memory
FileStale == deserialize_1w_devices(file, FALSE) # Ok(access_list)

\* C17: when serialize_1w_devices fails in a cycle that changed the list, the
\* list keeps its new content and the loop goes on to the sleep; no later
\* cycle saves unless its own diff changes the list, so the file stays
\* different from the list until such a cycle (or a restart).
C17_NoRetryAfterFailedSave ==
    /\ []((syncPc = "sleep" /\ saveResult = "err")
            => /\ Running
               /\ access_list = Desired
               /\ access_list # setBefore
               /\ ENABLED SyncSleep)
    /\ []((saveInvoked \/ syncPc \in {"save", "save_write"})
            => access_list # setBefore)
    /\ [][(FileStale /\ ~FileStale' /\ Running' /\ mainPc # "load")
             => \/ syncPc \in {"retain", "insert"}
                \/ /\ syncPc \in {"save", "save_write"}
                   /\ access_list # setBefore]_vars

\* the previous cycle called serialize_1w_devices, this cycle got the same
\* body and did not save, and the file still differs from the list
C17_Witness ==
    /\ syncPc = "sleep" /\ fetchResult = "ok"
    /\ prev.ok /\ prev.saved /\ prev.body = body
    /\ ~saveInvoked
    /\ access_list = {IdB, IdC, IdD}
    /\ FileStale

\* C18: serialize_1w_devices never leaves a truncated or partly written file
\* at the path: every step of it on an existing non-empty file either leaves
\* the file as it was or makes it the complete new list, so a process that
\* ends at any point of the save restarts from one of the two.
C18_SaveNeverPartial ==
    [][(syncPc \in {"save", "save_write"}
            /\ file.exists /\ file.bytes # <<>> /\ access_list # {})
          => \/ file' = file
             \/ deserialize_1w_devices(file', FALSE) = Ok(access_list)]_vars

\* the ids that occur anywhere in the model
AllIds == {IdA, IdB, IdC, IdD, IdE}

\* C19: in every state of a diff in progress, an id of both the old and the
\* desired set is in access_list and an id of neither is not; an event
\* handled during the diff is answered accordingly.
C19_NoTransientFlip ==
    /\ [](InDiff => \A id \in AllIds :
             /\ id \in setBefore \cap Desired => id \in access_list
             /\ id \notin setBefore \cup Desired => id \notin access_list)
    /\ [][(InDiff /\ decision' # decision
              /\ decision'.verdict \in {"valid", "invalid"})
             => /\ decision'.id \in setBefore \cap Desired
                    => decision'.verdict = "valid"
                /\ decision'.id \notin setBefore \cup Desired
                    => decision'.verdict = "invalid"]_vars

\* the retain pass has dropped A and visited C but not yet B (old {A,B,C},
\* desired {B,C,D}); the unknown button E was denied
C19_Witness ==
    /\ syncPc = "retain"
    /\ toVisit = {IdB}
    /\ setBefore = {IdA, IdB, IdC}
    /\ Desired = {IdB, IdC, IdD}
    /\ access_list = {IdB, IdC}
    /\ decision = [verdict |-> "invalid", id |-> IdE]

\* a body of a comment and two malformed lines: no id can be decoded from it
NothingDecodable == <<CommentLine, RemoteEntry(BadHexText), NoCommaLine>>

\* C20: a response with a success status from which no id can be decoded
\* empties a non-empty access_list and is saved as an empty file, and while
\* the list is empty no button is granted.
C20_EmptyResponseEmptiesList ==
    /\ []((syncPc = "sleep" /\ fetchResult = "ok"
              /\ Desired = {} /\ setBefore # {})
            => /\ access_list = {}
               /\ saveInvoked
               /\ saveResult = "ok" => file = FileOf(<<>>))
    /\ [][(access_list = {} /\ decision' # decision)
             => decision'.verdict # "valid"]_vars

\* {A,B,C} was emptied by a body without a decodable line, the empty file is
\* written and button A has been denied
C20_Witness ==
    /\ syncPc = "sleep" /\ saveResult = "ok"
    /\ body = NothingDecodable
    /\ setBefore = {IdA, IdB, IdC}
    /\ access_list = {}
    /\ file = FileOf(<<>>)
    /\ decision = [verdict |-> "invalid", id |-> IdA]

=============================================================================
